---- MODULE Spec2Model ----
(***************************************************************************)
(* Model of the gosync metadata store (pkg/db/store/sqlite.go, a GORM      *)
(* store over SQLite), its models (pkg/db/models) and the backend registry *)
(* of docs/02 (Register, ResolveVirtualPath, isValidBackendID).            *)
(*                                                                         *)
(* Strings are sequences of one-character strings, so that splitting,      *)
(* concatenation and the identifier charset check are computed as the code *)
(* computes them.  Tables are sets of rows; every model with a             *)
(* gorm.DeletedAt field is soft-deleted (Delete sets deleted_at, reads of  *)
(* that model add "deleted_at IS NULL").                                   *)
(***************************************************************************)
EXTENDS Integers, Sequences, FiniteSets, TLC

VARIABLES backends, files, tags, op, repl,
          filters, syncConfigs, syncStates,   \* further tables of the store
          clients, built, gsc, mu,            \* RegistryImpl client cache
          pool,                               \* database/sql connection pool
          history, schema, mig,               \* migrations
          syncStatus,                         \* sync engine state per SyncConfig
          conflict, run,                      \* sync engine: conflicts, job batch
          cfgFiles, cliOut                    \* gosync config generate
\* the variables outside the backend, file and tag tables and the registry calls
tableVars == <<filters, syncConfigs, syncStates>>
cacheVars == <<clients, built, gsc, mu>>
migVars == <<history, schema, mig>>
engineVars == <<conflict, run>>
cliVars == <<cfgFiles, cliOut>>
ext2 == <<engineVars, cliVars>>
ext == <<tableVars, cacheVars, pool, migVars, syncStatus, ext2>>
vars == <<backends, files, tags, op, repl, ext>>

(* ---------------------------- bounds ----------------------------------- *)
MaxFileID == 2
MaxTagID == 2
MaxFilterID == 2
MaxSyncConfigID == 2
MaxSyncStateID == 2
NumGoroutines == 2     \* goroutines calling the registry and the store
MaxBuilt == 3          \* storage clients constructed in one behaviour
NumAgents == 2         \* agents opening the same database
NumMigrations == 2     \* length of the migration list
NumSyncs == 3          \* sync configurations run by the engine
NumDirs == 2           \* output directories of config generate
NumJobs == 3           \* jobs of a sync batch
MaxMTime == 3          \* modification times of the two sides of a conflict

(* ---------------------------- strings ---------------------------------- *)
LowerSeq == <<"a","b","c","d","e","f","g","h","i","j","k","l","m",
             "n","o","p","q","r","s","t","u","v","w","x","y","z">>
UpperSeq == <<"A","B","C","D","E","F","G","H","I","J","K","L","M",
             "N","O","P","Q","R","S","T","U","V","W","X","Y","Z">>
Lower == {LowerSeq[i] : i \in DOMAIN LowerSeq}
Upper == {UpperSeq[i] : i \in DOMAIN UpperSeq}
Digit == {"0","1","2","3","4","5","6","7","8","9"}

Max(S) == CHOOSE m \in S : \A x \in S : x <= m

\* strings.SplitN(s, "/", 2): the index of the first "/" (0 when there is none)
FirstSlash(s) ==
  IF \E i \in 1..Len(s) : s[i] = "/"
  THEN CHOOSE i \in 1..Len(s) : s[i] = "/" /\ \A j \in 1..(i-1) : s[j] # "/"
  ELSE 0

SplitAtLastSlash(s) ==
  IF \E i \in 1..Len(s) : s[i] = "/"
  THEN LET i == CHOOSE k \in 1..Len(s) : s[k] = "/" /\ \A j \in (k+1)..Len(s) : s[j] # "/"
       IN <<SubSeq(s, 1, i-1), SubSeq(s, i+1, Len(s))>>
  ELSE <<s>>

SplitN2(s) ==
  LET i == FirstSlash(s) IN
  IF i = 0 THEN <<s>> ELSE <<SubSeq(s, 1, i-1), SubSeq(s, i+1, Len(s))>>

\* every enumeration of a finite set as a sequence (row order of a query
\* without ORDER BY is not fixed by the code)
Perms(S) ==
  {q \in [1..Cardinality(S) -> S] : \A i, j \in 1..Cardinality(S) : i # j => q[i] # q[j]}

Drop(q, n) == IF n >= Len(q) THEN <<>> ELSE SubSeq(q, n+1, Len(q))
Take(q, n) == IF n >= Len(q) THEN q ELSE SubSeq(q, 1, n)

\* query.Limit(limit) when limit > 0, query.Offset(offset) when offset > 0
LimitOffset(q, limit, offset) ==
  LET o == IF offset > 0 THEN Drop(q, offset) ELSE q
  IN IF limit > 0 THEN Take(o, limit) ELSE o

(* ------------------------- input domains ------------------------------- *)
IdA == <<"a">>
IdB == <<"B","_","0","-">>
ValidIDs == {IdA, IdB}
IllegalIDs == {<<>>, <<".","a">>, <<"/","a">>, <<"a","/","b">>, <<"a"," ">>, <<"a",".">>}
BackendIDs == ValidIDs \cup IllegalIDs

PathP == <<"p">>
PathPQ == <<"p","/","q">>
Paths == {<<>>, PathP, PathPQ, <<"/","p">>}
FilePaths == {PathP, PathPQ}

Colour == "colour"
Red == "red"
Blue == "blue"
TagKVs == {<<Colour, Red>>, <<Colour, Blue>>}

AccessKeys == {"k1", "k2"}

(* ----------------------------- rows ------------------------------------ *)
\* models.Backend: ID is the primary key
BackendRow(id, key, del) == [ID |-> id, AccessKey |-> key, Deleted |-> del]
\* models.File: ID primary key, idx_backend_path a plain (non-unique) index
FileRow(id, b, p, del) == [ID |-> id, BackendID |-> b, Path |-> p, Deleted |-> del]
\* models.Tag: ID primary key, idx_file_tags / idx_tag_key / idx_tag_value plain indexes
TagRow(id, f, k, v, del) == [ID |-> id, FileID |-> f, Key |-> k, Value |-> v, Deleted |-> del]

\* gorm soft delete scope: rows whose deleted_at IS NULL
Live(rows) == {r \in rows : ~r.Deleted}
\* UPDATE t SET deleted_at = now WHERE cond AND deleted_at IS NULL
\* (hit: the rows cond selects)
SoftDelete(rows, hit) ==
  {IF r \in hit /\ ~r.Deleted THEN [r EXCEPT !.Deleted = TRUE] ELSE r : r \in rows}
\* integer primary key autoincrement
NextID(rows) == Max({r.ID : r \in rows} \cup {0}) + 1

\* op is the last registry call and what it returned: its name, the input
\* string, the error class, the backend identifier and path returned, and the
\* number of metadata-store lookups the call made.  Store calls leave NoOp;
\* what they return is the err field of the ...Rows operators.
NoOp == [name |-> "none", arg |-> <<>>, err |-> "ok", backend |-> <<>>,
         path |-> <<>>, lookups |-> 0]
RegistryCall(name, arg, err, b, p, n) ==
  [name |-> name, arg |-> arg, err |-> err, backend |-> b, path |-> p, lookups |-> n]

(* ======================= SQLiteStore: backends ========================= *)
\* db.Create(backend): INSERT; the primary key rejects an id already in the
\* table, soft-deleted rows included
CreateBackendRows(bs, b) ==
  IF \E r \in bs : r.ID = b.ID
  THEN [rows |-> bs, err |-> "constraint"]
  ELSE [rows |-> bs \cup {BackendRow(b.ID, b.AccessKey, FALSE)}, err |-> "ok"]

\* db.Save(backend): a zero primary key goes to Create; otherwise UPDATE of
\* every column WHERE id = ? AND deleted_at IS NULL and, when no row was
\* updated, INSERT ... ON CONFLICT (id) DO UPDATE of every column
UpdateBackendRows(bs, b) ==
  IF b.ID = <<>>
  THEN CreateBackendRows(bs, b)
  ELSE [rows |-> {r \in bs : r.ID # b.ID} \cup {BackendRow(b.ID, b.AccessKey, FALSE)},
        err |-> "ok"]

\* db.Delete(&Backend{}, "id = ?", id): soft delete of that row only; no
\* statement touches the files table
DeleteBackendRows(bs, id) == SoftDelete(bs, {r \in bs : r.ID = id})

GetBackendUnscoped(bs, id) ==
  IF \E r \in bs : r.ID = id
  THEN [err |-> "ok", row |-> CHOOSE r \in bs : r.ID = id]
  ELSE [err |-> "NotFound", row |-> BackendRow(<<>>, "", FALSE)]

\* db.Where("id = ?", id).First(&backend): ErrRecordNotFound unless a live row
GetBackend(bs, id) ==
  IF \E r \in Live(bs) : r.ID = id
  THEN [err |-> "ok", row |-> CHOOSE r \in Live(bs) : r.ID = id]
  ELSE [err |-> "NotFound", row |-> BackendRow(<<>>, "", FALSE)]

CreateBackend(b) ==
  LET r == CreateBackendRows(backends, b) IN
  /\ backends' = r.rows
  /\ op' = NoOp
  /\ UNCHANGED <<files, tags, repl, ext>>

UpdateBackend(b) ==
  LET r == UpdateBackendRows(backends, b) IN
  /\ backends' = r.rows
  /\ op' = NoOp
  /\ UNCHANGED <<files, tags, repl, ext>>

DeleteBackend(id) ==
  /\ backends' = DeleteBackendRows(backends, id)
  /\ op' = NoOp
  /\ UNCHANGED <<files, tags, repl, ext>>

(* ========================= SQLiteStore: files ========================== *)
\* db.Create(file): INSERT with the given id, or the next autoincrement id
\* when file.ID is zero; fk is whether the connection enforces foreign keys
CreateFileRows(fs, bs, file, fk) ==
  LET id == IF file.ID = 0 THEN NextID(fs) ELSE file.ID IN
  IF \/ \E r \in fs : r.ID = id
     \/ fk /\ ~\E b \in bs : b.ID = file.BackendID
  THEN [rows |-> fs, err |-> "constraint", id |-> id]
  ELSE [rows |-> fs \cup {FileRow(id, file.BackendID, file.Path, FALSE)},
        err |-> "ok", id |-> id]

\* db.Save(file): see UpdateBackendRows
UpdateFileRows(fs, bs, file, fk) ==
  IF file.ID = 0
  THEN CreateFileRows(fs, bs, file, fk)
  ELSE IF fk /\ ~\E b \in bs : b.ID = file.BackendID
  THEN [rows |-> fs, err |-> "constraint", id |-> file.ID]
  ELSE [rows |-> {r \in fs : r.ID # file.ID}
                   \cup {FileRow(file.ID, file.BackendID, file.Path, FALSE)},
        err |-> "ok", id |-> file.ID]

\* db.Delete(&File{}, id)
DeleteFileRows(fs, id) == SoftDelete(fs, {r \in fs : r.ID = id})

\* db.Where("backend_id = ?", backendID).Delete(&File{})
DeleteFilesByBackendRows(fs, backendID) == SoftDelete(fs, {r \in fs : r.BackendID = backendID})

\* Where("backend_id = ? AND path = ?").First(&file): ORDER BY id LIMIT 1
GetFile(fs, backendID, path) ==
  LET m == {r \in Live(fs) : r.BackendID = backendID /\ r.Path = path} IN
  IF m = {} THEN [err |-> "NotFound", id |-> 0]
  ELSE [err |-> "ok", id |-> CHOOSE i \in {r.ID : r \in m} : \A r \in m : i <= r.ID]

CreateFile(file, fk) ==
  LET r == CreateFileRows(files, backends, file, fk) IN
  /\ r.id <= MaxFileID
  /\ files' = r.rows
  /\ op' = NoOp
  /\ UNCHANGED <<backends, tags, repl, ext>>

UpdateFile(file, fk) ==
  LET r == UpdateFileRows(files, backends, file, fk) IN
  /\ r.id <= MaxFileID
  /\ files' = r.rows
  /\ op' = NoOp
  /\ UNCHANGED <<backends, tags, repl, ext>>

DeleteFile(id) ==
  /\ files' = DeleteFileRows(files, id)
  /\ op' = NoOp
  /\ UNCHANGED <<backends, tags, repl, ext>>

DeleteFilesByBackend(backendID) ==
  /\ files' = DeleteFilesByBackendRows(files, backendID)
  /\ op' = NoOp
  /\ UNCHANGED <<backends, tags, repl, ext>>

\* SQLite's LIKE: "%" matches any run of characters, "_" any one character,
\* every other character matches itself, ASCII letters without regard to case
FoldCase(c) ==
  IF c \in Upper THEN LowerSeq[CHOOSE i \in DOMAIN UpperSeq : UpperSeq[i] = c] ELSE c

RECURSIVE Like(_, _)
Like(s, pat) ==
  IF pat = <<>> THEN s = <<>>
  ELSE IF Head(pat) = "%"
  THEN Like(s, Tail(pat)) \/ (s # <<>> /\ Like(Tail(s), pat))
  ELSE /\ s # <<>>
       /\ (Head(pat) = "_" \/ FoldCase(Head(pat)) = FoldCase(Head(s)))
       /\ Like(Tail(s), Tail(pat))

\* the rows ListFiles selects: backend_id = ? [AND path LIKE prefix || '%']
\* AND deleted_at IS NULL
ListFilesRows(fs, backendID, pathPrefix) ==
  {r \in Live(fs) : /\ r.BackendID = backendID
                    /\ (pathPrefix # <<>> => Like(r.Path, pathPrefix \o <<"%">>))}

\* the results ListFiles can return: the selected rows in some order (the
\* query has no ORDER BY), cut by Limit and Offset
ListFiles(fs, backendID, pathPrefix, limit, offset) ==
  {LimitOffset(q, limit, offset) : q \in Perms(ListFilesRows(fs, backendID, pathPrefix))}

(* ========================== SQLiteStore: tags ========================== *)
\* db.Create(tag)
CreateTagRows(ts, fs, tag, fk) ==
  LET id == IF tag.ID = 0 THEN NextID(ts) ELSE tag.ID IN
  IF \/ \E r \in ts : r.ID = id
     \/ fk /\ ~\E f \in fs : f.ID = tag.FileID
  THEN [rows |-> ts, err |-> "constraint", id |-> id]
  ELSE [rows |-> ts \cup {TagRow(id, tag.FileID, tag.Key, tag.Value, FALSE)},
        err |-> "ok", id |-> id]

\* db.Where("file_id = ?", fileID).Find(&tags)
GetFileTags(ts, fileID) == {t \in Live(ts) : t.FileID = fileID}

GetFilesByTagJoinWrongColumn(fs, ts, key, value) ==
  {<<f, t>> \in Live(fs) \X ts : t.ID = f.ID /\ t.Key = key /\ t.Value = value}

\* SELECT files.* FROM files JOIN tags ON tags.file_id = files.id
\* WHERE tags.key = ? AND tags.value = ? AND files.deleted_at IS NULL:
\* the soft-delete scope is that of the queried model (files); the joined
\* tags table is named in a raw JOIN and gets none
GetFilesByTagJoin(fs, ts, key, value) ==
  {<<f, t>> \in Live(fs) \X ts : t.FileID = f.ID /\ t.Key = key /\ t.Value = value}

\* the results GetFilesByTag can return: one file per joined row, in some
\* order, cut by Limit and Offset
GetFilesByTag(fs, ts, key, value, limit, offset) ==
  {LimitOffset([i \in DOMAIN q |-> q[i][1]], limit, offset) :
     q \in Perms(GetFilesByTagJoin(fs, ts, key, value))}

\* db.Delete(&Tag{}, id)
DeleteTagRowsByFile(ts, id) == SoftDelete(ts, {r \in ts : r.FileID = id})
DeleteTagRows(ts, id) == SoftDelete(ts, {r \in ts : r.ID = id})

\* db.Where("file_id = ?", fileID).Delete(&Tag{})
DeleteFileTagsRows(ts, fileID) == SoftDelete(ts, {r \in ts : r.FileID = fileID})

CreateTag(tag, fk) ==
  LET r == CreateTagRows(tags, files, tag, fk) IN
  /\ r.id <= MaxTagID
  /\ tags' = r.rows
  /\ op' = NoOp
  /\ UNCHANGED <<backends, files, repl, ext>>

DeleteTag(id) ==
  /\ tags' = DeleteTagRows(tags, id)
  /\ op' = NoOp
  /\ UNCHANGED <<backends, files, repl, ext>>

DeleteFileTags(fileID) ==
  /\ tags' = DeleteFileTagsRows(tags, fileID)
  /\ op' = NoOp
  /\ UNCHANGED <<backends, files, repl, ext>>

(* ================== filter evaluation (docs/03) ======================== *)
Event == "event"
Vacation == "vacation"

\* the SQL a conjunction of two tag terms is turned into:
\*   SELECT f.* FROM files f
\*     JOIN tags t1 ON f.id = t1.file_id AND t1.key = k1 AND t1.value = v1
\*     JOIN tags t2 ON f.id = t2.file_id AND t2.key = k2 AND t2.value = v2
\* the statement names no deleted_at column; the files of the result
EvalAnd(fs, ts, k1, v1, k2, v2) ==
  {f \in fs :
     /\ \E t1 \in ts : t1.FileID = f.ID /\ t1.Key = k1 /\ t1.Value = v1
     /\ \E t2 \in ts : t2.FileID = f.ID /\ t2.Key = k2 /\ t2.Value = v2}

(* ====================== RegistryImpl (docs/02) ========================= *)
isValidBackendIDFirstCharOnly(id) ==
  ~(Len(id) = 0 \/ id[1] = "." \/ id[1] = "/")

\* isValidBackendID: not empty, not starting with "." or "/", and only
\* [a-zA-Z0-9_-]
isValidBackendID(id) ==
  IF Len(id) = 0 \/ id[1] = "." \/ id[1] = "/"
  THEN FALSE
  ELSE \A i \in 1..Len(id) :
         id[i] \in Lower \cup Upper \cup Digit \cup {"-", "_"}

\* RegistryImpl.Register: validate the identifier, encrypt the credentials
\* (enc: whether the encryption service succeeds), then write the backend
\* through the store.  The write is named UpsertBackend in the document; the
\* store writes a backend row with Create or with Save, and either is taken.
Register(b, enc, save) ==
  /\ IF ~isValidBackendID(b.ID)
     THEN /\ op' = RegistryCall("Register", b.ID, "InvalidPath", <<>>, <<>>, 0)
          /\ UNCHANGED backends
     ELSE IF ~enc
     THEN /\ op' = RegistryCall("Register", b.ID, "EncryptError", <<>>, <<>>, 0)
          /\ UNCHANGED backends
     ELSE LET r == IF save THEN UpdateBackendRows(backends, b)
                           ELSE CreateBackendRows(backends, b) IN
          /\ backends' = r.rows
          /\ op' = RegistryCall("Register", b.ID, r.err, <<>>, <<>>, 0)
  /\ UNCHANGED <<files, tags, repl, ext>>

\* RegistryImpl.ResolveVirtualPath: split at the first "/", look the first
\* part up as a backend identifier (r.Get, one store lookup), return the
\* backend and the rest, or "backend not found"
ResolveVirtualPathResult(bs, virtualPath) ==
  LET parts == SplitN2(virtualPath)
      backendID == parts[1]
      backendPath == IF Len(parts) > 1 THEN parts[2] ELSE <<>>
      got == GetBackend(bs, backendID)
  IN IF got.err # "ok"
     THEN [err |-> "NotFound", backend |-> <<>>, path |-> <<>>, lookups |-> 1]
     ELSE [err |-> "ok", backend |-> got.row.ID, path |-> backendPath, lookups |-> 1]

ResolveVirtualPath(virtualPath) ==
  LET r == ResolveVirtualPathResult(backends, virtualPath) IN
  /\ op' = RegistryCall("ResolveVirtualPath", virtualPath, r.err, r.backend, r.path,
                       r.lookups)
  /\ UNCHANGED <<backends, files, tags, repl, ext>>

(* ============ replacing a file's tag set through the store ============= *)
\* The store has no operation and no transaction for this: a caller deletes
\* the file's tags (DeleteFileTags) and creates the new ones one CreateTag at
\* a time, each statement committed on its own.
ReplIdle == [pc |-> "idle", file |-> 0, old |-> {}, new |-> {}, todo |-> {}]

KVs(rows) == {<<t.Key, t.Value>> : t \in rows}

ReplaceBegin(fileID, newKVs) ==
  /\ repl.pc = "idle"
  /\ repl' = [pc |-> "writing", file |-> fileID, old |-> KVs(GetFileTags(tags, fileID)),
              new |-> newKVs, todo |-> newKVs]
  /\ tags' = DeleteFileTagsRows(tags, fileID)
  /\ op' = NoOp
  /\ UNCHANGED <<backends, files, ext>>

\* one CreateTag of the replacement; fail: the statement returns an error
\* (store unavailable, context cancelled), after which the caller stops
ReplaceWrite(kv, fk, fail) ==
  /\ repl.pc = "writing"
  /\ kv \in repl.todo
  /\ LET r == IF fail THEN [rows |-> tags, err |-> "PersistenceError", id |-> 0]
               ELSE CreateTagRows(tags, files,
                      [ID |-> 0, FileID |-> repl.file, Key |-> kv[1], Value |-> kv[2]], fk)
     IN /\ r.id <= MaxTagID
        /\ tags' = r.rows
        /\ op' = NoOp
        /\ repl' = IF r.err # "ok" THEN [repl EXCEPT !.pc = "failed"]
                   ELSE IF repl.todo = {kv} THEN [repl EXCEPT !.pc = "done", !.todo = {}]
                   ELSE [repl EXCEPT !.todo = @ \ {kv}]
  /\ UNCHANGED <<backends, files, ext>>

\* the caller is interrupted between two statements
ReplaceInterrupt ==
  /\ repl.pc = "writing"
  /\ repl' = [repl EXCEPT !.pc = "failed"]
  /\ op' = NoOp
  /\ UNCHANGED <<backends, files, tags, ext>>

ReplaceReturn ==
  /\ repl.pc \in {"done", "failed"}
  /\ repl' = ReplIdle
  /\ op' = NoOp
  /\ UNCHANGED <<backends, files, tags, ext>>

(* ========================= SQLiteStore: filters ======================== *)
FilterRow(id, vp, del) == [ID |-> id, VirtualPath |-> vp, Deleted |-> del]

\* db.Create(filter): INSERT; the primary key and the unique index on
\* virtual_path are checked against every row of the table, the soft-deleted
\* ones included; nothing is compared with the backends table
CreateFilterRows(fs, f) ==
  LET id == IF f.ID = 0 THEN NextID(fs) ELSE f.ID IN
  IF \/ \E r \in fs : r.ID = id
     \/ \E r \in fs : r.VirtualPath = f.VirtualPath
  THEN [rows |-> fs, err |-> "constraint"]
  ELSE [rows |-> fs \cup {FilterRow(id, f.VirtualPath, FALSE)}, err |-> "ok"]

\* db.Save(filter): Create for a zero primary key; otherwise UPDATE of every
\* column of the live row and, when there is none, INSERT ... ON CONFLICT
\* (id) DO UPDATE; a virtual_path held by another row fails either statement
UpdateFilterRows(fs, f) ==
  IF f.ID = 0
  THEN CreateFilterRows(fs, f)
  ELSE IF \E r \in fs : r.ID # f.ID /\ r.VirtualPath = f.VirtualPath
  THEN [rows |-> fs, err |-> "constraint"]
  ELSE [rows |-> {r \in fs : r.ID # f.ID} \cup {FilterRow(f.ID, f.VirtualPath, FALSE)},
        err |-> "ok"]

\* db.Delete(&Filter{}, id): soft delete
DeleteFilterRows(fs, id) == SoftDelete(fs, {r \in fs : r.ID = id})

\* db.Where("virtual_path = ?", virtualPath).First(&filter)
GetFilter(fs, vp) ==
  IF \E r \in Live(fs) : r.VirtualPath = vp
  THEN [err |-> "ok", row |-> CHOOSE r \in Live(fs) : r.VirtualPath = vp]
  ELSE [err |-> "NotFound", row |-> FilterRow(0, <<>>, FALSE)]

CreateFilter(f) ==
  LET r == CreateFilterRows(filters, f) IN
  /\ NextID(filters) <= MaxFilterID
  /\ filters' = r.rows
  /\ op' = NoOp
  /\ UNCHANGED <<ext2, backends, files, tags, repl, syncConfigs, syncStates,
                 cacheVars, pool, migVars, syncStatus>>

UpdateFilter(f) ==
  LET r == UpdateFilterRows(filters, f) IN
  /\ f.ID = 0 => NextID(filters) <= MaxFilterID
  /\ filters' = r.rows
  /\ op' = NoOp
  /\ UNCHANGED <<ext2, backends, files, tags, repl, syncConfigs, syncStates,
                 cacheVars, pool, migVars, syncStatus>>

DeleteFilter(id) ==
  /\ filters' = DeleteFilterRows(filters, id)
  /\ op' = NoOp
  /\ UNCHANGED <<ext2, backends, files, tags, repl, syncConfigs, syncStates,
                 cacheVars, pool, migVars, syncStatus>>

(* ================== SQLiteStore: sync configurations =================== *)
SyncConfigRow(id, name, src, dir, del) ==
  [ID |-> id, Name |-> name, SourcePath |-> src, Direction |-> dir,
   Deleted |-> del]

\* db.Create(config): INSERT; primary key and the unique index on name are
\* checked against every row; source path and direction are stored as given
CreateSyncConfigRows(cs, c) ==
  LET id == IF c.ID = 0 THEN NextID(cs) ELSE c.ID IN
  IF \/ \E r \in cs : r.ID = id
     \/ \E r \in cs : r.Name = c.Name
  THEN [rows |-> cs, err |-> "constraint"]
  ELSE [rows |-> cs \cup {SyncConfigRow(id, c.Name, c.SourcePath, c.Direction, FALSE)},
        err |-> "ok"]

\* db.Save(config)
UpdateSyncConfigRows(cs, c) ==
  IF c.ID = 0
  THEN CreateSyncConfigRows(cs, c)
  ELSE IF \E r \in cs : r.ID # c.ID /\ r.Name = c.Name
  THEN [rows |-> cs, err |-> "constraint"]
  ELSE [rows |-> {r \in cs : r.ID # c.ID}
                   \cup {SyncConfigRow(c.ID, c.Name, c.SourcePath, c.Direction, FALSE)},
        err |-> "ok"]

\* db.Delete(&SyncConfig{}, id): soft delete, an UPDATE, so the sync states
\* of the configuration stay
DeleteSyncConfigRows(cs, id) == SoftDelete(cs, {r \in cs : r.ID = id})

\* db.Where("name = ?", name).First(&config)
GetSyncConfig(cs, name) ==
  IF \E r \in Live(cs) : r.Name = name
  THEN [err |-> "ok", row |-> CHOOSE r \in Live(cs) : r.Name = name]
  ELSE [err |-> "NotFound", row |-> SyncConfigRow(0, "", <<>>, "", FALSE)]

CreateSyncConfig(c) ==
  LET r == CreateSyncConfigRows(syncConfigs, c) IN
  /\ NextID(syncConfigs) <= MaxSyncConfigID
  /\ syncConfigs' = r.rows
  /\ op' = NoOp
  /\ UNCHANGED <<ext2, backends, files, tags, repl, filters, syncStates,
                 cacheVars, pool, migVars, syncStatus>>

UpdateSyncConfig(c) ==
  LET r == UpdateSyncConfigRows(syncConfigs, c) IN
  /\ c.ID = 0 => NextID(syncConfigs) <= MaxSyncConfigID
  /\ syncConfigs' = r.rows
  /\ op' = NoOp
  /\ UNCHANGED <<ext2, backends, files, tags, repl, filters, syncStates,
                 cacheVars, pool, migVars, syncStatus>>

DeleteSyncConfig(id) ==
  /\ syncConfigs' = DeleteSyncConfigRows(syncConfigs, id)
  /\ op' = NoOp
  /\ UNCHANGED <<ext2, backends, files, tags, repl, filters, syncStates,
                 cacheVars, pool, migVars, syncStatus>>

(* ===================== SQLiteStore: sync states ======================== *)
SyncStateRow(id, cfg, b, client, cursor, bytes) ==
  [ID |-> id, SyncConfigID |-> cfg, BackendID |-> b, ClientID |-> client,
   LastCursor |-> cursor, BytesSynced |-> bytes]

\* db.Create(state): INSERT; the only unique column is the primary key
\* (idx_sync_backend is a plain index); fk is whether the connection
\* enforces the foreign key to sync_configs
CreateSyncStateRows(ss, cs, s, fk) ==
  LET id == IF s.ID = 0 THEN NextID(ss) ELSE s.ID IN
  IF \/ \E r \in ss : r.ID = id
     \/ fk /\ ~ \E c \in cs : c.ID = s.SyncConfigID
  THEN [rows |-> ss, err |-> "constraint"]
  ELSE [rows |-> ss \cup {SyncStateRow(id, s.SyncConfigID, s.BackendID,
                                        s.ClientID, s.LastCursor, s.BytesSynced)},
        err |-> "ok"]

\* db.Save(state): SyncState has no DeletedAt, so the UPDATE matches the row
\* with that primary key if there is one, and the INSERT runs if not
UpdateSyncStateRows(ss, cs, s, fk) ==
  IF s.ID = 0
  THEN CreateSyncStateRows(ss, cs, s, fk)
  ELSE IF fk /\ ~ \E c \in cs : c.ID = s.SyncConfigID
  THEN [rows |-> ss, err |-> "constraint"]
  ELSE [rows |-> {r \in ss : r.ID # s.ID}
                   \cup {SyncStateRow(s.ID, s.SyncConfigID, s.BackendID,
                                      s.ClientID, s.LastCursor, s.BytesSynced)},
        err |-> "ok"]

\* db.Delete(&SyncState{}, id): the row is removed (no DeletedAt field)
DeleteSyncStateRows(ss, id) == {r \in ss : r.ID # id}

\* db.Where("sync_config_id = ? AND backend_id = ? AND client_id = ?")
\* .First(&state): First orders by primary key
GetSyncState(ss, cfg, b, client) ==
  LET hit == {r \in ss : r.SyncConfigID = cfg /\ r.BackendID = b
                         /\ r.ClientID = client} IN
  IF hit # {}
  THEN [err |-> "ok", row |-> CHOOSE r \in hit : \A q \in hit : r.ID <= q.ID]
  ELSE [err |-> "NotFound", row |-> SyncStateRow(0, 0, <<>>, "", 0, 0)]

CreateSyncState(s, fk) ==
  LET r == CreateSyncStateRows(syncStates, syncConfigs, s, fk) IN
  /\ NextID(syncStates) <= MaxSyncStateID
  /\ syncStates' = r.rows
  /\ op' = NoOp
  /\ UNCHANGED <<ext2, backends, files, tags, repl, filters, syncConfigs,
                 cacheVars, pool, migVars, syncStatus>>

UpdateSyncState(s, fk) ==
  LET r == UpdateSyncStateRows(syncStates, syncConfigs, s, fk) IN
  /\ s.ID = 0 => NextID(syncStates) <= MaxSyncStateID
  /\ syncStates' = r.rows
  /\ op' = NoOp
  /\ UNCHANGED <<ext2, backends, files, tags, repl, filters, syncConfigs,
                 cacheVars, pool, migVars, syncStatus>>

DeleteSyncState(id) ==
  /\ syncStates' = DeleteSyncStateRows(syncStates, id)
  /\ op' = NoOp
  /\ UNCHANGED <<ext2, backends, files, tags, repl, filters, syncConfigs,
                 cacheVars, pool, migVars, syncStatus>>

(* ============== RegistryImpl client cache (docs/02) ==================== *)
Goroutines == 1..NumGoroutines

GscIdle == [pc |-> "idle", id |-> <<>>, cfg |-> "", client |-> 0, err |-> "ok"]
MuFree == [readers |-> {}, writer |-> 0]

\* a storage client built by s3.NewS3Storage: n tells one constructed client
\* from another, key is the credential of the configuration it was built from
Client(n, id, key) == [n |-> n, id |-> id, key |-> key]

\* r.clients[backendID]: the entries of the map under one key (none or one)
CacheLookup(cs, id) == {c \in cs : c.id = id}

\* r.clients[backendID] = client
CacheInsert(cs, c) == (cs \ CacheLookup(cs, c.id)) \cup {c}

\* delete(r.clients, backendID)
CacheEvict(cs, id) == cs \ CacheLookup(cs, id)

\* GetStorageClient, r.mu.RLock(): shared lock, waits while a writer holds mu
GscRLock(g, id) ==
  /\ gsc[g].pc = "idle"
  /\ mu.writer = 0
  /\ mu' = [mu EXCEPT !.readers = @ \cup {g}]
  /\ gsc' = [gsc EXCEPT ![g] = [GscIdle EXCEPT !.pc = "rlocked", !.id = id]]
  /\ UNCHANGED <<ext2, backends, files, tags, op, repl, tableVars, clients, built,
                 pool, migVars, syncStatus>>

\* the map read under the shared lock, then r.mu.RUnlock() on both branches:
\* a hit returns the cached client, a miss goes on without any lock
GscLookup(g) ==
  /\ gsc[g].pc = "rlocked"
  /\ LET hit == CacheLookup(clients, gsc[g].id) IN
     gsc' = [gsc EXCEPT ![g] =
               IF hit # {}
               THEN [@ EXCEPT !.pc = "done", !.client = (CHOOSE c \in hit : TRUE).n]
               ELSE [@ EXCEPT !.pc = "get"]]
  /\ mu' = [mu EXCEPT !.readers = @ \ {g}]
  /\ UNCHANGED <<ext2, backends, files, tags, op, repl, tableVars, clients, built,
                 pool, migVars, syncStatus>>

\* backend, err := r.Get(backendID), with no lock held
GscGet(g) ==
  /\ gsc[g].pc = "get"
  /\ LET r == GetBackend(backends, gsc[g].id) IN
     gsc' = [gsc EXCEPT ![g] =
               IF r.err # "ok"
               THEN [@ EXCEPT !.pc = "done", !.err = r.err]
               ELSE [@ EXCEPT !.pc = "build", !.cfg = r.row.AccessKey]]
  /\ UNCHANGED <<ext2, backends, files, tags, op, repl, tableVars, clients, built, mu,
                 pool, migVars, syncStatus>>

\* decryptCredentials and s3.NewS3Storage(config), with no lock held; ok is
\* whether both succeed
GscBuild(g, ok) ==
  /\ gsc[g].pc = "build"
  /\ IF ok
     THEN /\ Cardinality(built) < MaxBuilt
          /\ LET n == Cardinality(built) + 1 IN
             /\ built' = built \cup {Client(n, gsc[g].id, gsc[g].cfg)}
             /\ gsc' = [gsc EXCEPT ![g] = [@ EXCEPT !.pc = "lock", !.client = n]]
     ELSE /\ gsc' = [gsc EXCEPT ![g] = [@ EXCEPT !.pc = "done", !.err = "ClientError"]]
          /\ UNCHANGED built
  /\ UNCHANGED <<ext2, backends, files, tags, op, repl, tableVars, clients, mu,
                 pool, migVars, syncStatus>>

\* r.mu.Lock(): exclusive lock, waits for readers and writer to leave
GscLock(g) ==
  /\ gsc[g].pc = "lock"
  /\ mu = MuFree
  /\ mu' = [mu EXCEPT !.writer = g]
  /\ gsc' = [gsc EXCEPT ![g] = [@ EXCEPT !.pc = "insert"]]
  /\ UNCHANGED <<ext2, backends, files, tags, op, repl, tableVars, clients, built,
                 pool, migVars, syncStatus>>

\* r.clients[backendID] = client; r.mu.Unlock(); return client, nil
GscInsert(g) ==
  /\ gsc[g].pc = "insert"
  /\ clients' = CacheInsert(clients,
                   CHOOSE c \in built : c.n = gsc[g].client)
  /\ mu' = MuFree
  /\ gsc' = [gsc EXCEPT ![g] = [@ EXCEPT !.pc = "done"]]
  /\ UNCHANGED <<ext2, backends, files, tags, op, repl, tableVars, built,
                 pool, migVars, syncStatus>>

\* the caller takes the result; the goroutine is free for another call
GscReturn(g) ==
  /\ gsc[g].pc = "done"
  /\ gsc' = [gsc EXCEPT ![g] = GscIdle]
  /\ UNCHANGED <<ext2, backends, files, tags, op, repl, tableVars, clients, built, mu,
                 pool, migVars, syncStatus>>

\* Registry.Update and Registry.Delete (interface, docs/02 lines 193-195):
\* the write to the store and the removal of the backend's cached client, as
\* the specification states them (section 4.1)
RegistryUpdate(b) ==
  /\ mu = MuFree
  /\ backends' = UpdateBackendRows(backends, b).rows
  /\ clients' = CacheEvict(clients, b.ID)
  /\ op' = NoOp
  /\ UNCHANGED <<ext2, files, tags, repl, tableVars, built, gsc, mu,
                 pool, migVars, syncStatus>>

RegistryDelete(id) ==
  /\ mu = MuFree
  /\ backends' = DeleteBackendRows(backends, id)
  /\ clients' = CacheEvict(clients, id)
  /\ op' = NoOp
  /\ UNCHANGED <<ext2, files, tags, repl, tableVars, built, gsc, mu,
                 pool, migVars, syncStatus>>

(* ============ SQLiteStore.Connect and the connection pool ============== *)
\* sqlDB.SetMaxOpenConns(1)
MaxOpenConns == 1

NoStmt == [kind |-> "none", id |-> 0,
           tag |-> [ID |-> 0, FileID |-> 0, Key |-> <<>>, Value |-> <<>>]]
PoolClosed == [connected |-> FALSE, max |-> 0,
               conn |-> [g \in Goroutines |-> NoStmt]]

\* the goroutines holding a connection of the pool, each with the write
\* statement it is executing
InFlight(p) == {g \in Goroutines : p.conn[g] # NoStmt}

\* database/sql: a caller gets a connection when fewer than max are open;
\* max <= 0 is no limit
CanOpenAlways(p) == TRUE
CanOpen(p) == p.max <= 0 \/ Cardinality(InFlight(p)) < p.max

\* Connect: gorm.Open, then SetMaxOpenConns(1) and SetMaxIdleConns(1)
Connect ==
  /\ ~pool.connected
  /\ pool' = [pool EXCEPT !.connected = TRUE, !.max = MaxOpenConns]
  /\ UNCHANGED <<ext2, backends, files, tags, op, repl, tableVars, cacheVars,
                 migVars, syncStatus>>

\* a store call of goroutine g reaches the pool: it waits until the pool
\* hands it a connection, and its statement is then in flight
PoolAcquire(g, stmt) ==
  /\ pool.connected
  /\ pool.conn[g] = NoStmt
  /\ CanOpen(pool)
  /\ stmt.kind = "CreateTag" => NextID(tags) <= MaxTagID
  /\ pool' = [pool EXCEPT !.conn[g] = stmt]
  /\ UNCHANGED <<ext2, backends, files, tags, op, repl, tableVars, cacheVars,
                 migVars, syncStatus>>

\* the statement runs (CreateTag, DeleteTag), the connection goes back to
\* the pool and the call returns
PoolExec(g, fk) ==
  /\ pool.conn[g] # NoStmt
  /\ LET stmt == pool.conn[g] IN
     tags' = IF stmt.kind = "CreateTag"
             THEN CreateTagRows(tags, files, stmt.tag, fk).rows
             ELSE DeleteTagRows(tags, stmt.id)
  /\ pool' = [pool EXCEPT !.conn[g] = NoStmt]
  /\ UNCHANGED <<ext2, backends, files, op, repl, tableVars, cacheVars,
                 migVars, syncStatus>>

(* ======================= migrations.Migrator =========================== *)
Agents == 1..NumAgents

\* allMigrations(): the versions in the order of the list
Migrations == [i \in 1..NumMigrations |-> i]
Versions == {Migrations[i] : i \in 1..NumMigrations}

HistoryRow(id, v) == [ID |-> id, Version |-> v]
Applied(h) == {r.Version : r \in h}

MigIdle == [pc |-> "idle", applied |-> {}, i |-> 0]

\* the loop's test: if appliedVersions[migration.Version] { continue }
IsPendingAlways(applied, v) == TRUE
IsPending(applied, v) == v \notin applied

\* a Migrate call is in progress in agent a
Migrating(a) == mig[a].pc \in {"loop", "tx"}

\* Migrate: AutoMigrate(&migrationHistory{}) and Find(&applied); ok is
\* whether both statements succeed
MigrateBegin(a, ok) ==
  /\ mig[a].pc = "idle"
  /\ mig' = [mig EXCEPT ![a] =
               IF ok THEN [pc |-> "loop", applied |-> Applied(history), i |-> 1]
                     ELSE [MigIdle EXCEPT !.pc = "failed"]]
  /\ UNCHANGED <<ext2, backends, files, tags, op, repl, tableVars, cacheVars, pool,
                 history, schema, syncStatus>>

\* the loop steps over a migration found in appliedVersions
MigrateSkip(a) ==
  /\ mig[a].pc = "loop"
  /\ mig[a].i <= NumMigrations
  /\ ~IsPending(mig[a].applied, Migrations[mig[a].i])
  /\ mig' = [mig EXCEPT ![a].i = @ + 1]
  /\ UNCHANGED <<ext2, backends, files, tags, op, repl, tableVars, cacheVars, pool,
                 history, schema, syncStatus>>

\* runMigration: the transaction opens and migration.Up(tx) runs in it; one
\* write transaction at a time on the database file.  A failing Up rolls the
\* transaction back and Migrate returns the error.
MigrateUp(a, ok) ==
  /\ mig[a].pc = "loop"
  /\ mig[a].i <= NumMigrations
  /\ IsPending(mig[a].applied, Migrations[mig[a].i])
  /\ \A b \in Agents : mig[b].pc # "tx"
  /\ mig' = [mig EXCEPT ![a].pc = IF ok THEN "tx" ELSE "failed"]
  /\ UNCHANGED <<ext2, backends, files, tags, op, repl, tableVars, cacheVars, pool,
                 history, schema, syncStatus>>

MigrateRecordNoRollback(a, ok) ==
  /\ mig[a].pc = "tx"
  /\ LET v == Migrations[mig[a].i] IN
     IF ok /\ v \notin Applied(history)
     THEN /\ history' = history \cup {HistoryRow(NextID(history), v)}
          /\ schema' = schema \cup {v}
          /\ mig' = [mig EXCEPT ![a].pc = "loop", ![a].i = @ + 1]
     ELSE /\ mig' = [mig EXCEPT ![a].pc = "failed"]
          /\ schema' = schema \cup {v}
          /\ UNCHANGED history
  /\ UNCHANGED <<ext2, backends, files, tags, op, repl, tableVars, cacheVars, pool,
                 syncStatus>>

MigrateRecordNoUnique(a, ok) ==
  /\ mig[a].pc = "tx"
  /\ LET v == Migrations[mig[a].i] IN
     IF ok
     THEN /\ history' = history \cup {HistoryRow(NextID(history), v)}
          /\ schema' = schema \cup {v}
          /\ mig' = [mig EXCEPT ![a].pc = "loop", ![a].i = @ + 1]
     ELSE /\ mig' = [mig EXCEPT ![a].pc = "failed"]
          /\ UNCHANGED <<history, schema>>
  /\ UNCHANGED <<ext2, backends, files, tags, op, repl, tableVars, cacheVars, pool,
                 syncStatus>>

\* tx.Create(&history) and the commit: the row and the effect of Up become
\* visible together; a failing insert (ok false, or the version is in the
\* unique index already) rolls both back and Migrate returns the error
MigrateRecord(a, ok) ==
  /\ mig[a].pc = "tx"
  /\ LET v == Migrations[mig[a].i] IN
     IF ok /\ v \notin Applied(history)
     THEN /\ history' = history \cup {HistoryRow(NextID(history), v)}
          /\ schema' = schema \cup {v}
          /\ mig' = [mig EXCEPT ![a].pc = "loop", ![a].i = @ + 1]
     ELSE /\ mig' = [mig EXCEPT ![a].pc = "failed"]
          /\ UNCHANGED <<history, schema>>
  /\ UNCHANGED <<ext2, backends, files, tags, op, repl, tableVars, cacheVars, pool,
                 syncStatus>>

\* the loop is over: return nil
MigrateDone(a) ==
  /\ mig[a].pc = "loop"
  /\ mig[a].i > NumMigrations
  /\ mig' = [mig EXCEPT ![a].pc = "done"]
  /\ UNCHANGED <<ext2, backends, files, tags, op, repl, tableVars, cacheVars, pool,
                 history, schema, syncStatus>>

\* the caller has the result of Migrate
MigrateReturn(a) ==
  /\ mig[a].pc \in {"done", "failed"}
  /\ mig' = [mig EXCEPT ![a] = MigIdle]
  /\ UNCHANGED <<ext2, backends, files, tags, op, repl, tableVars, cacheVars, pool,
                 history, schema, syncStatus>>

\* a Rollback call is in progress in agent a
RollingBack(a) == mig[a].pc \in {"rb", "rbDown"}

\* Order("version DESC").First(&last): the history row of the highest version
LastApplied(h) == CHOOSE r \in h : \A q \in h : q.Version <= r.Version

\* Rollback: the last history row is read (ok: the query succeeds) and its
\* migration is looked up in the list
RollbackBegin(a, ok) ==
  /\ mig[a].pc = "idle"
  /\ mig' = [mig EXCEPT ![a] =
               IF ok /\ history # {}
               THEN [pc |-> "rb", applied |-> {LastApplied(history).ID},
                     i |-> LastApplied(history).Version]
               ELSE [MigIdle EXCEPT !.pc = "rbFailed"]]
  /\ UNCHANGED <<ext2, backends, files, tags, op, repl, tableVars, cacheVars, pool,
                 history, schema, syncStatus>>

\* migration.Down(m.db.WithContext(ctx)): on the database itself, in no
\* transaction; a failing Down ends the call
RollbackDown(a, ok) ==
  /\ mig[a].pc = "rb"
  /\ \A b \in Agents : mig[b].pc # "tx"
  /\ IF ok
     THEN /\ schema' = schema \ {Migrations[mig[a].i]}
          /\ mig' = [mig EXCEPT ![a].pc = "rbDown"]
     ELSE /\ mig' = [mig EXCEPT ![a].pc = "rbFailed"]
          /\ UNCHANGED schema
  /\ UNCHANGED <<ext2, backends, files, tags, op, repl, tableVars, cacheVars, pool,
                 history, syncStatus>>

\* m.db.WithContext(ctx).Delete(&last): the history row goes (the model has
\* no DeletedAt); a failing Delete ends the call
RollbackDelete(a, ok) ==
  /\ mig[a].pc = "rbDown"
  /\ \A b \in Agents : mig[b].pc # "tx"
  /\ IF ok
     THEN /\ history' = {r \in history : r.ID \notin mig[a].applied}
          /\ mig' = [mig EXCEPT ![a].pc = "rbDone"]
     ELSE /\ mig' = [mig EXCEPT ![a].pc = "rbFailed"]
          /\ UNCHANGED history
  /\ UNCHANGED <<ext2, backends, files, tags, op, repl, tableVars, cacheVars, pool,
                 schema, syncStatus>>

\* the caller has the result of Rollback
RollbackReturn(a) ==
  /\ mig[a].pc \in {"rbDone", "rbFailed"}
  /\ mig' = [mig EXCEPT ![a] = MigIdle]
  /\ UNCHANGED <<ext2, backends, files, tags, op, repl, tableVars, cacheVars, pool,
                 history, schema, syncStatus>>

(* ================ sync engine: state per SyncConfig ==================== *)
SyncIDs == 1..NumSyncs
ActiveStates == {"idle", "scanning", "syncing"}

\* a sync run starts: the source and destination are listed and diffed
SyncScan(c) ==
  /\ syncStatus[c] = "idle"
  /\ syncStatus' = [syncStatus EXCEPT ![c] = "scanning"]
  /\ UNCHANGED <<ext2, backends, files, tags, op, repl, tableVars, cacheVars, pool,
                 migVars>>

\* the job list is ready and is handed to the workers
SyncJobs(c) ==
  /\ syncStatus[c] = "scanning"
  /\ syncStatus' = [syncStatus EXCEPT ![c] = "syncing"]
  /\ UNCHANGED <<ext2, backends, files, tags, op, repl, tableVars, cacheVars, pool,
                 migVars>>

\* the job list is drained
SyncFinish(c) ==
  /\ syncStatus[c] = "syncing"
  /\ syncStatus' = [syncStatus EXCEPT ![c] = "idle"]
  /\ UNCHANGED <<ext2, backends, files, tags, op, repl, tableVars, cacheVars, pool,
                 migVars>>

\* a retryable failure after the bounded retries
SyncFail(c) ==
  /\ syncStatus[c] \in ActiveStates
  /\ syncStatus' = [syncStatus EXCEPT ![c] = "error"]
  /\ UNCHANGED <<ext2, backends, files, tags, op, repl, tableVars, cacheVars, pool,
                 migVars>>

\* the backoff is over
SyncRecover(c) ==
  /\ syncStatus[c] = "error"
  /\ syncStatus' = [syncStatus EXCEPT ![c] = "idle"]
  /\ UNCHANGED <<ext2, backends, files, tags, op, repl, tableVars, cacheVars, pool,
                 migVars>>

\* gosync sync pause <name>
PauseSync(c) ==
  /\ syncStatus[c] \in ActiveStates
  /\ syncStatus' = [syncStatus EXCEPT ![c] = "paused"]
  /\ UNCHANGED <<ext2, backends, files, tags, op, repl, tableVars, cacheVars, pool,
                 migVars>>

\* gosync sync resume <name>
ResumeSyncFromAny(c) ==
  /\ syncStatus' = [syncStatus EXCEPT ![c] = "idle"]
  /\ UNCHANGED <<ext2, backends, files, tags, op, repl, tableVars, cacheVars, pool,
                 migVars>>
ResumeSync(c) ==
  /\ syncStatus[c] = "paused"
  /\ syncStatus' = [syncStatus EXCEPT ![c] = "idle"]
  /\ UNCHANGED <<ext2, backends, files, tags, op, repl, tableVars, cacheVars, pool,
                 migVars>>

(* ================= sync engine: conflict resolution ==================== *)
Side(mtime, content) == [mtime |-> mtime, content |-> content]
NoSide == Side(0, "")
NoConflict == [pc |-> "none", dir |-> "", local |-> NoSide, remote |-> NoSide,
               winner |-> "", log |-> NoSide]

\* the side that wins when a path changed on both sides: the later
\* modification time; on equal times the side the direction prefers
ResolveConflictLocalOnTie(lm, rm, dir) ==
  IF rm > lm THEN "remote" ELSE "local"
ResolveConflict(lm, rm, dir) ==
  IF lm > rm THEN "local"
  ELSE IF rm > lm THEN "remote"
  ELSE IF dir = "download" THEN "remote"
  ELSE "local"

\* scanning finds a path that changed on both sides since the last sync
ConflictDetect(dir, l, r) ==
  /\ conflict.pc \in {"none", "resolved"}
  /\ conflict' = [NoConflict EXCEPT !.pc = "detected", !.dir = dir,
                                    !.local = l, !.remote = r]
  /\ UNCHANGED <<backends, files, tags, op, repl, tableVars, cacheVars, pool,
                 migVars, syncStatus, run, cliVars>>

\* the winner's state goes to both sides and the loser's prior state is logged
ConflictResolve ==
  /\ conflict.pc = "detected"
  /\ LET w == ResolveConflict(conflict.local.mtime, conflict.remote.mtime,
                              conflict.dir)
         win == IF w = "local" THEN conflict.local ELSE conflict.remote
         lose == IF w = "local" THEN conflict.remote ELSE conflict.local IN
     conflict' = [conflict EXCEPT !.pc = "resolved", !.winner = w,
                                  !.local = win, !.remote = win, !.log = lose]
  /\ UNCHANGED <<backends, files, tags, op, repl, tableVars, cacheVars, pool,
                 migVars, syncStatus, run, cliVars>>

(* ================== sync engine: resumable job batch =================== *)
EngineClients == {"c1", "c2"}
RunIdle == [pc |-> "idle", cursor |-> 0, done |-> <<>>, resumed |-> FALSE]

\* the bytes a job of the batch transfers
JobSize(j) == j

\* where a run starts: at the cursor of the recorded sync state, or at the
\* first job when there is none
ResumeCursorZero(r) == 0
ResumeCursor(r) == IF r.err = "ok" THEN r.row.LastCursor ELSE 0

\* a run of sync configuration 1 over backend a starts or restarts in a
\* client: GetSyncState, and CreateSyncState when there is no state yet
RunStart(c, fk) ==
  /\ run[c].pc \in {"idle", "interrupted"}
  /\ LET r == GetSyncState(syncStates, 1, IdA, c)
         n == CreateSyncStateRows(syncStates, syncConfigs,
                [ID |-> 0, SyncConfigID |-> 1, BackendID |-> IdA, ClientID |-> c,
                 LastCursor |-> 0, BytesSynced |-> 0], fk) IN
     IF r.err = "ok"
     THEN /\ run' = [run EXCEPT ![c].pc = "running", ![c].cursor = ResumeCursor(r),
                                 ![c].resumed = @ \/ run[c].pc = "interrupted"]
          /\ UNCHANGED syncStates
     ELSE /\ syncStates' = n.rows
          /\ run' = [run EXCEPT ![c].pc = IF n.err = "ok" THEN "running" ELSE "idle",
                                 ![c].cursor = ResumeCursor(r)]
  /\ op' = NoOp
  /\ UNCHANGED <<backends, files, tags, repl, filters, syncConfigs, cacheVars,
                 pool, migVars, syncStatus, conflict, cliVars>>

\* the next job of the batch completes: the counters and the cursor of the
\* sync state are written with UpdateSyncState
RunJob(c, fk) ==
  /\ run[c].pc = "running"
  /\ run[c].cursor < NumJobs
  /\ LET j == run[c].cursor + 1
         r == GetSyncState(syncStates, 1, IdA, c)
         u == UpdateSyncStateRows(syncStates, syncConfigs,
                [ID |-> r.row.ID, SyncConfigID |-> 1, BackendID |-> IdA,
                 ClientID |-> c, LastCursor |-> j,
                 BytesSynced |-> r.row.BytesSynced + JobSize(j)], fk) IN
     /\ r.err = "ok"
     /\ u.err = "ok"
     /\ syncStates' = u.rows
     /\ run' = [run EXCEPT ![c].cursor = j, ![c].done = Append(@, j)]
  /\ op' = NoOp
  /\ UNCHANGED <<backends, files, tags, repl, filters, syncConfigs, cacheVars,
                 pool, migVars, syncStatus, conflict, cliVars>>

\* the run is interrupted: what the client held in memory is lost
RunInterrupt(c) ==
  /\ run[c].pc = "running"
  /\ run' = [run EXCEPT ![c].pc = "interrupted", ![c].cursor = 0]
  /\ UNCHANGED <<backends, files, tags, op, repl, tableVars, cacheVars, pool,
                 migVars, syncStatus, conflict, cliVars>>

\* the batch is drained
RunFinish(c) ==
  /\ run[c].pc = "running"
  /\ run[c].cursor = NumJobs
  /\ run' = [run EXCEPT ![c].pc = "finished"]
  /\ UNCHANGED <<backends, files, tags, op, repl, tableVars, cacheVars, pool,
                 migVars, syncStatus, conflict, cliVars>>

(* ================== gosync config generate (CLI) ======================= *)
Dirs == 1..NumDirs
NoFile == "absent"
NoOut == [ran |-> FALSE, output |-> 0, overwrite |-> FALSE, msgs |-> <<>>,
          err |-> "ok"]

\* the gosync.yaml of an output directory is written, edited or removed by
\* the user
EditConfig(d, content) ==
  /\ cfgFiles' = [cfgFiles EXCEPT ![d] = content]
  /\ cliOut' = NoOut
  /\ UNCHANGED <<backends, files, tags, op, repl, tableVars, cacheVars, pool,
                 migVars, syncStatus, engineVars>>

\* RunE of "config generate": MkdirAll, Stat and the skip message,
\* yaml.Marshal of the default configuration, WriteFile
ConfigGenerate(d, overwrite, mkdirOk, writeOk) ==
  LET out == [NoOut EXCEPT !.ran = TRUE, !.output = d, !.overwrite = overwrite,
                           !.msgs = <<"Generating">>]
      skip == cfgFiles[d] # NoFile /\ ~overwrite
      seen == IF skip THEN Append(out.msgs, "Skipping") ELSE out.msgs IN
  /\ IF ~mkdirOk
     THEN /\ cliOut' = [out EXCEPT !.err = "failed to create output directory"]
          /\ UNCHANGED cfgFiles
     ELSE IF ~writeOk
     THEN /\ cliOut' = [out EXCEPT !.msgs = seen, !.err = "failed to write config file"]
          /\ UNCHANGED cfgFiles
     ELSE /\ cfgFiles' = [cfgFiles EXCEPT ![d] = "default"]
          /\ cliOut' = [out EXCEPT !.msgs = seen \o <<"Generated", "complete">>]
  /\ UNCHANGED <<backends, files, tags, op, repl, tableVars, cacheVars, pool,
                 migVars, syncStatus, engineVars>>

(* ========================== specifications ============================= *)
Init ==
  /\ backends = {}
  /\ files = {}
  /\ tags = {}
  /\ op = NoOp
  /\ repl = ReplIdle
  /\ filters = {}
  /\ syncConfigs = {}
  /\ syncStates = {}
  /\ clients = {}
  /\ built = {}
  /\ gsc = [g \in Goroutines |-> GscIdle]
  /\ mu = MuFree
  /\ pool = PoolClosed
  /\ history = {}
  /\ schema = {}
  /\ mig = [a \in Agents |-> MigIdle]
  /\ syncStatus = [c \in SyncIDs |-> "idle"]
  /\ conflict = NoConflict
  /\ run = [c \in EngineClients |-> RunIdle]
  /\ cfgFiles = [d \in Dirs |-> NoFile]
  /\ cliOut = NoOut

BackendInputs == [ID : ValidIDs, AccessKey : {"k1"}]
RegisterInputs == [ID : BackendIDs, AccessKey : AccessKeys]
\* new rows are created with a zero ID (autoincrement); Save names the row
NewFileInputs == [ID : {0}, BackendID : ValidIDs, Path : FilePaths]
FileInputs == [ID : 0..MaxFileID, BackendID : ValidIDs, Path : FilePaths]
TagInputs == {[ID |-> 0, FileID |-> f, Key |-> kv[1], Value |-> kv[2]] :
                f \in 1..MaxFileID, kv \in TagKVs}
ResolveInputs ==
  BackendIDs \cup {b \o <<"/">> \o p : b \in BackendIDs, p \in Paths}

\* the metadata store
Next ==
  \/ \E b \in BackendInputs : CreateBackend(b)
  \/ \E b \in BackendInputs : UpdateBackend(b)
  \/ \E id \in ValidIDs : DeleteBackend(id)
  \/ \E f \in NewFileInputs, fk \in BOOLEAN : CreateFile(f, fk)
  \/ \E f \in FileInputs, fk \in BOOLEAN : UpdateFile(f, fk)
  \/ \E id \in 0..MaxFileID : DeleteFile(id)
  \/ \E id \in ValidIDs : DeleteFilesByBackend(id)
  \/ \E t \in TagInputs, fk \in BOOLEAN : CreateTag(t, fk)
  \/ \E id \in 0..MaxTagID : DeleteTag(id)
  \/ \E f \in 1..MaxFileID : DeleteFileTags(f)

Spec == Init /\ [][Next]_vars

\* the tag and file tables alone; the tag operations read neither a file's
\* backend nor its path, so files are drawn from one backend and one path
TagSpecFileInputs == [ID : 0..MaxFileID, BackendID : {IdA}, Path : {PathP}]

NextTags ==
  \/ \E f \in TagSpecFileInputs, fk \in BOOLEAN : f.ID = 0 /\ CreateFile(f, fk)
  \/ \E f \in TagSpecFileInputs, fk \in BOOLEAN : UpdateFile(f, fk)
  \/ \E id \in 0..MaxFileID : DeleteFile(id)
  \/ \E t \in TagInputs, fk \in BOOLEAN : CreateTag(t, fk)
  \/ \E id \in 0..MaxTagID : DeleteTag(id)
  \/ \E f \in 1..MaxFileID : DeleteFileTags(f)

SpecTags == Init /\ [][NextTags]_vars

\* the registry over the store
NextRegistry ==
  \/ \E b \in RegisterInputs, enc \in BOOLEAN, save \in BOOLEAN : Register(b, enc, save)
  \/ \E id \in BackendIDs : DeleteBackend(id)
  \/ \E p \in ResolveInputs : ResolveVirtualPath(p)

SpecRegistry == Init /\ [][NextRegistry]_vars

\* a caller replacing tag sets, with no other writer of tags meanwhile
NextReplace ==
  \/ \E f \in NewFileInputs, fk \in BOOLEAN : repl.pc = "idle" /\ CreateFile(f, fk)
  \/ \E t \in TagInputs, fk \in BOOLEAN : repl.pc = "idle" /\ CreateTag(t, fk)
  \/ \E f \in 1..MaxFileID, new \in SUBSET TagKVs : new # {} /\ ReplaceBegin(f, new)
  \/ \E kv \in TagKVs, fk \in BOOLEAN, fail \in BOOLEAN : ReplaceWrite(kv, fk, fail)
  \/ ReplaceInterrupt
  \/ ReplaceReturn

SpecReplace == Init /\ [][NextReplace]_vars

\* the client cache while the registered configurations stay as they are
NextClients ==
  \/ \E b \in BackendInputs, enc \in BOOLEAN : Register(b, enc, FALSE)
  \/ \E g \in Goroutines, id \in ValidIDs : GscRLock(g, id)
  \/ \E g \in Goroutines : GscLookup(g)
  \/ \E g \in Goroutines : GscGet(g)
  \/ \E g \in Goroutines, ok \in BOOLEAN : GscBuild(g, ok)
  \/ \E g \in Goroutines : GscLock(g)
  \/ \E g \in Goroutines : GscInsert(g)
  \/ \E g \in Goroutines : GscReturn(g)

SpecClients == Init /\ [][NextClients]_vars

\* the client cache while backends are registered, updated and removed
EvictInputs == [ID : {IdA}, AccessKey : AccessKeys]

NextEvict ==
  \/ \E b \in EvictInputs, enc, save \in BOOLEAN : Register(b, enc, save)
  \/ \E b \in EvictInputs : RegistryUpdate(b)
  \/ RegistryDelete(IdA)
  \/ \E g \in Goroutines : GscRLock(g, IdA)
  \/ \E g \in Goroutines : GscLookup(g)
  \/ \E g \in Goroutines : GscGet(g)
  \/ \E g \in Goroutines, ok \in BOOLEAN : GscBuild(g, ok)
  \/ \E g \in Goroutines : GscLock(g)
  \/ \E g \in Goroutines : GscInsert(g)
  \/ \E g \in Goroutines : GscReturn(g)

SpecEvict == Init /\ [][NextEvict]_vars

\* the backends table alone; the store takes any identifier
StoreBackendInputs ==
  [ID : ValidIDs \cup {<<"a", "/", "b">>}, AccessKey : AccessKeys]

NextBackends ==
  \/ \E b \in StoreBackendInputs : CreateBackend(b)
  \/ \E b \in StoreBackendInputs : UpdateBackend(b)
  \/ \E b \in StoreBackendInputs : DeleteBackend(b.ID)

SpecBackends == Init /\ [][NextBackends]_vars

\* backends and filters
FilterPaths == {IdA, IdA \o <<"/", "x">>, <<"f">>}
FilterInputs == [ID : 0..MaxFilterID, VirtualPath : FilterPaths]

NextFilters ==
  \/ \E b \in BackendInputs : CreateBackend(b)
  \/ \E b \in BackendInputs : UpdateBackend(b)
  \/ \E f \in FilterInputs : f.ID = 0 /\ CreateFilter(f)
  \/ \E f \in FilterInputs : UpdateFilter(f)
  \/ \E id \in 1..MaxFilterID : DeleteFilter(id)

SpecFilters == Init /\ [][NextFilters]_vars

\* sync configurations over one filter
Directions == {"bidirectional", "download", "upload"}
SyncConfigInputs ==
  [ID : 0..MaxSyncConfigID, Name : {"n1", "n2"},
   SourcePath : {<<"f">>, IdA \o <<"/">> \o PathP}, Direction : Directions]

NextSyncConfigs ==
  \/ CreateFilter([ID |-> 0, VirtualPath |-> <<"f">>])
  \/ \E id \in 1..MaxFilterID : DeleteFilter(id)
  \/ \E c \in SyncConfigInputs : c.ID = 0 /\ CreateSyncConfig(c)
  \/ \E c \in SyncConfigInputs : UpdateSyncConfig(c)
  \/ \E id \in 1..MaxSyncConfigID : DeleteSyncConfig(id)

SpecSyncConfigs == Init /\ [][NextSyncConfigs]_vars

\* the sync states of one sync configuration, written by two clients
SyncStateInputs ==
  [ID : 0..MaxSyncStateID, SyncConfigID : {1}, BackendID : ValidIDs,
   ClientID : {"c1", "c2"}, LastCursor : {0, 1}, BytesSynced : {0}]

NextSyncStates ==
  \/ CreateSyncConfig([ID |-> 0, Name |-> "n1",
                       SourcePath |-> IdA \o <<"/">> \o PathP,
                       Direction |-> "download"])
  \/ \E s \in SyncStateInputs, fk \in BOOLEAN : s.ID = 0 /\ CreateSyncState(s, fk)
  \/ \E s \in SyncStateInputs, fk \in BOOLEAN : UpdateSyncState(s, fk)
  \/ \E id \in 1..MaxSyncStateID : DeleteSyncState(id)

SpecSyncStates == Init /\ [][NextSyncStates]_vars

\* store writes of the agent's goroutines through the connection pool
PoolStmts ==
  {[kind |-> "CreateTag", id |-> 0, tag |-> t] : t \in TagInputs}
    \cup {[kind |-> "DeleteTag", id |-> i, tag |-> NoStmt.tag] : i \in 1..MaxTagID}

NextPool ==
  \/ Connect
  \/ \E g \in Goroutines, stmt \in PoolStmts : PoolAcquire(g, stmt)
  \/ \E g \in Goroutines, fk \in BOOLEAN : PoolExec(g, fk)

SpecPool == Init /\ [][NextPool]_vars

\* Migrate calls one after the other
NextMigrate ==
  \/ \E a \in Agents, ok \in BOOLEAN :
       /\ \A b \in Agents : ~Migrating(b)
       /\ MigrateBegin(a, ok)
  \/ \E a \in Agents : MigrateSkip(a)
  \/ \E a \in Agents, ok \in BOOLEAN : MigrateUp(a, ok)
  \/ \E a \in Agents, ok \in BOOLEAN : MigrateRecord(a, ok)
  \/ \E a \in Agents : MigrateDone(a)
  \/ \E a \in Agents : MigrateReturn(a)

SpecMigrate == Init /\ [][NextMigrate]_vars

\* the sync engine
NextSyncEngine ==
  \/ \E c \in SyncIDs : SyncScan(c)
  \/ \E c \in SyncIDs : SyncJobs(c)
  \/ \E c \in SyncIDs : SyncFinish(c)
  \/ \E c \in SyncIDs : SyncFail(c)
  \/ \E c \in SyncIDs : SyncRecover(c)
  \/ \E c \in SyncIDs : PauseSync(c)
  \/ \E c \in SyncIDs : ResumeSync(c)

SpecSyncEngine == Init /\ [][NextSyncEngine]_vars

\* conflicts of one path under each direction
Sides == {Side(t, c) : t \in 1..MaxMTime, c \in {"v1", "v2"}}

NextConflict ==
  \/ \E dir \in Directions, l, r \in Sides : ConflictDetect(dir, l, r)
  \/ ConflictResolve

SpecConflict == Init /\ [][NextConflict]_vars

\* a batch of sync configuration 1 run by two clients, with interruptions
NextResume ==
  \/ CreateSyncConfig([ID |-> 0, Name |-> "n1",
                       SourcePath |-> IdA \o <<"/">> \o PathP,
                       Direction |-> "download"])
  \/ \E c \in EngineClients, fk \in BOOLEAN : RunStart(c, fk)
  \/ \E c \in EngineClients, fk \in BOOLEAN : RunJob(c, fk)
  \/ \E c \in EngineClients : RunInterrupt(c)
  \/ \E c \in EngineClients : RunFinish(c)

SpecResume == Init /\ [][NextResume]_vars

\* config generate over output directories whose file the user edits
NextConfigGenerate ==
  \/ \E d \in Dirs, content \in {NoFile, "edited", "custom"} : EditConfig(d, content)
  \/ \E d \in Dirs, overwrite, mkdirOk, writeOk \in BOOLEAN :
       ConfigGenerate(d, overwrite, mkdirOk, writeOk)

SpecConfigGenerate == Init /\ [][NextConfigGenerate]_vars

\* files of one backend tagged colour=red and event=vacation
EvalTagInputs ==
  {[ID |-> 0, FileID |-> f, Key |-> kv[1], Value |-> kv[2]] :
     f \in 1..MaxFileID, kv \in {<<Colour, Red>>, <<Event, Vacation>>}}

NextFilterEval ==
  \/ \E f \in TagSpecFileInputs, fk \in BOOLEAN : f.ID = 0 /\ CreateFile(f, fk)
  \/ \E t \in EvalTagInputs, fk \in BOOLEAN : CreateTag(t, fk)
  \/ \E id \in 1..MaxTagID : DeleteTag(id)

SpecFilterEval == Init /\ [][NextFilterEval]_vars

\* Migrate and Rollback calls one after the other
NextRollback ==
  \/ \E a \in Agents, ok \in BOOLEAN :
       /\ \A b \in Agents : ~Migrating(b) /\ ~RollingBack(b)
       /\ MigrateBegin(a, ok)
  \/ \E a \in Agents : MigrateSkip(a)
  \/ \E a \in Agents, ok \in BOOLEAN : MigrateUp(a, ok)
  \/ \E a \in Agents, ok \in BOOLEAN : MigrateRecord(a, ok)
  \/ \E a \in Agents : MigrateDone(a)
  \/ \E a \in Agents : MigrateReturn(a)
  \/ \E a \in Agents, ok \in BOOLEAN :
       /\ \A b \in Agents : ~Migrating(b) /\ ~RollingBack(b)
       /\ RollbackBegin(a, ok)
  \/ \E a \in Agents, ok \in BOOLEAN : RollbackDown(a, ok)
  \/ \E a \in Agents, ok \in BOOLEAN : RollbackDelete(a, ok)
  \/ \E a \in Agents : RollbackReturn(a)

SpecRollback == Init /\ [][NextRollback]_vars

\* agents that start together: Migrate calls in any interleaving, every
\* statement succeeding unless another agent's commit makes it fail
NextMigrateConcurrent ==
  \/ \E a \in Agents : MigrateBegin(a, TRUE)
  \/ \E a \in Agents : MigrateSkip(a)
  \/ \E a \in Agents : MigrateUp(a, TRUE)
  \/ \E a \in Agents : MigrateRecord(a, TRUE)
  \/ \E a \in Agents : MigrateDone(a)
  \/ \E a \in Agents : MigrateReturn(a)

SpecMigrateConcurrent == Init /\ [][NextMigrateConcurrent]_vars

(* ============================== claims ================================= *)
IsRed(t) == t.Key = Colour /\ t.Value = Red
\* f is in every / in no result the reverse lookup colour=red can return
InRed(fs, ts, id) ==
  \A res \in GetFilesByTag(fs, ts, Colour, Red, 0, 0) : \E i \in DOMAIN res : res[i].ID = id
NotInRed(fs, ts, id) ==
  \A res \in GetFilesByTag(fs, ts, Colour, Red, 0, 0) : \A i \in DOMAIN res : res[i].ID # id

\* C1: however often a tag (file, key, value) was added, the store holds at
\* most one active row for the triple and GetFileTags(file) lists it once.
C1_TagTripleOnce ==
  \A f \in 1..MaxFileID, kv \in TagKVs :
    Cardinality({t \in GetFileTags(tags, f) : t.Key = kv[1] /\ t.Value = kv[2]}) <= 1

\* C2: when file f carries the tag colour=red and that tag is removed, by
\* DeleteTag or by DeleteFileTags, GetFilesByTag(colour, red) evaluated next
\* does not contain f, and is empty when f was the only match.
C2_RemovedTagLeavesFilter ==
  \A f \in Live(files) :
    LET red == {t \in GetFileTags(tags, f.ID) : IsRed(t)}
        only == \A m \in GetFilesByTagJoin(files, tags, Colour, Red) : m[1].ID = f.ID
        Gone(ts) == /\ NotInRed(files, ts, f.ID)
                    /\ only => GetFilesByTag(files, ts, Colour, Red, 0, 0) = {<<>>}
    IN /\ \A t \in red : red = {t} => Gone(DeleteTagRows(tags, t.ID))
       /\ red # {} => Gone(DeleteFileTagsRows(tags, f.ID))

\* C3: a step that adds the tag colour=red to an active file that had no
\* tags leaves a state in which GetFilesByTag(colour, red) contains the file.
C3_TaggedFileAppears ==
  [][\A f \in Live(files) :
       /\ GetFileTags(tags, f.ID) = {}
       /\ \E t \in tags' \ tags : t.FileID = f.ID /\ IsRed(t)
       /\ f \in Live(files')
       => InRed(files', tags', f.ID)]_vars

C3_Witness ==
  \E f \in Live(files) :
    /\ \E t \in tags : {u \in tags : u.FileID = f.ID} = {t} /\ IsRed(t) /\ ~t.Deleted
    /\ InRed(files, tags, f.ID)

\* C4: no two active File rows have the same (BackendID, Path).
C4_BackendPathUnique ==
  \A r1, r2 \in Live(files) :
    r1.BackendID = r2.BackendID /\ r1.Path = r2.Path => r1 = r2

\* C5: a step that deletes backend B leaves a state in which GetFile(B, p)
\* finds nothing for every p, ListFiles(B, ...) is empty and GetFilesByTag
\* returns no file of B.
C5_DeletedBackendHidesFiles ==
  [][\A b \in Live(backends) :
       (\E d \in backends' : d.ID = b.ID /\ d.Deleted) =>
         /\ \A p \in FilePaths : GetFile(files', b.ID, p).err = "NotFound"
         /\ ListFiles(files', b.ID, <<>>, 0, 0) = {<<>>}
         /\ \A kv \in TagKVs :
              \A res \in GetFilesByTag(files', tags', kv[1], kv[2], 0, 0) :
                \A i \in DOMAIN res : res[i].BackendID # b.ID]_vars

\* the first segment of a path, and the identifier rules, as the claims word them
FirstSegment(s) ==
  CHOOSE seg \in {SubSeq(s, 1, n) : n \in 0..Len(s)} :
    /\ \A i \in 1..Len(seg) : seg[i] # "/"
    /\ (Len(seg) = Len(s) \/ s[Len(seg) + 1] = "/")
CharsetOK(id) ==
  \A i \in 1..Len(id) : id[i] \in Lower \cup Upper \cup Digit \cup {"_", "-"}
Illegal(id) ==
  \/ id = <<>>
  \/ \E i \in 1..Len(id) : id[i] = "/"
  \/ (id # <<>> /\ id[1] = ".")
  \/ ~CharsetOK(id)

\* C6: resolving B + "/" + P for a registered backend B and an in-backend
\* path P returns the backend B and the remainder P.
C6_ResolveRoundTrip ==
  op.name = "ResolveVirtualPath" =>
    \A b \in Live(backends), p \in Paths :
      op.arg = b.ID \o <<"/">> \o p =>
        op.err = "ok" /\ op.backend = b.ID /\ op.path = p

C6_Witness ==
  /\ op.name = "ResolveVirtualPath"
  /\ op.arg = IdB \o <<"/">> \o PathPQ
  /\ op.err = "ok" /\ op.backend = IdB /\ op.path = PathPQ

\* C7: resolving a path whose first segment is not the identifier of a
\* registered, non-deleted backend fails NotFound, returns no backend and
\* leaves the store unchanged, also after the backend was deleted.
C7_UnregisteredNotFound ==
  [][op'.name = "ResolveVirtualPath"
     /\ ~(\E b \in Live(backends) : b.ID = FirstSegment(op'.arg))
     => /\ op'.err = "NotFound"
        /\ op'.backend = <<>>
        /\ UNCHANGED <<backends, files, tags>>]_vars

C7_Witness ==
  /\ op.name = "ResolveVirtualPath"
  /\ op.err = "NotFound"
  /\ \E b \in backends : b.Deleted /\ b.ID = FirstSegment(op.arg)

\* C8: Register with an illegal identifier (empty, containing "/", starting
\* with ".", or with a character outside [A-Za-z0-9_-]) fails InvalidPath,
\* and no backend with an illegal identifier is in the store.
C8_IllegalIDRejected ==
  /\ op.name = "Register" /\ Illegal(op.arg) => op.err = "InvalidPath"
  /\ \A b \in backends : ~Illegal(b.ID)

C8_Witness ==
  /\ op.name = "Register" /\ op.arg = <<"a","/","b">> /\ op.err = "InvalidPath"
  /\ backends # {}

\* C9: when the first segment of the path fails the identifier charset
\* check, resolution fails InvalidPath and makes no metadata-store lookup.
C9_CheapRejection ==
  op.name = "ResolveVirtualPath" /\ ~CharsetOK(FirstSegment(op.arg)) =>
    op.err = "InvalidPath" /\ op.lookups = 0

\* C10: while a replacement of a file's tag set is under way a reader sees
\* the old or the new tag set, and after a failed or interrupted replacement
\* the file's tag set is what it was before the replacement began.
C10_ReplaceAtomic ==
  LET now == KVs(GetFileTags(tags, repl.file)) IN
  /\ repl.pc = "writing" => now \in {repl.old, repl.new}
  /\ repl.pc = "failed" => now = repl.old

\* C11: on a cache miss under concurrent GetStorageClient calls at most one
\* storage client is constructed and inserted for a backend identifier, and
\* every caller that returns a client returns the one in the cache.
C11_ExclusiveConstruction ==
  /\ \A id \in ValidIDs : Cardinality({c \in built : c.id = id}) <= 1
  /\ \A g \in Goroutines :
       gsc[g].pc = "done" /\ gsc[g].err = "ok" =>
         \E c \in clients : c.n = gsc[g].client

\* C12: a cached client never outlives the configuration of its backend:
\* every entry of the client cache belongs to a live backend and was built
\* from the credentials that backend has now.
C12_CacheFollowsConfig ==
  \A c \in clients :
    \E b \in Live(backends) : b.ID = c.id /\ b.AccessKey = c.key

\* C13: no two backends share an identifier; CreateBackend with an
\* identifier in use fails and changes nothing; UpdateBackend leaves the
\* identifiers of the existing backends as they are and brings no backend
\* into existence that was not created.
C13_BackendIDsUniqueImmutable ==
  /\ \A r, q \in backends : r.ID = q.ID => r = q
  /\ \A b \in StoreBackendInputs :
       (\E r \in backends : r.ID = b.ID) =>
         LET c == CreateBackendRows(backends, b) IN
           c.err # "ok" /\ c.rows = backends
  /\ \A b \in StoreBackendInputs :
       LET u == UpdateBackendRows(backends, b).rows IN
         /\ {r \in u : r.ID # b.ID} = {r \in backends : r.ID # b.ID}
         /\ {r.ID : r \in Live(u)} \subseteq {r.ID : r \in Live(backends)}

\* C14: no two filters share a virtual path, and no filter's virtual path
\* nor its first segment is the identifier of a registered backend.
C14_FilterPathsDisjoint ==
  /\ \A f, g \in Live(filters) : f.VirtualPath = g.VirtualPath => f = g
  /\ \A f \in Live(filters), b \in Live(backends) :
       f.VirtualPath # b.ID /\ FirstSegment(f.VirtualPath) # b.ID

\* C15: at most one SyncState row for a (SyncConfig, Backend, Client) triple.
C15_OneSyncStatePerTriple ==
  \A r, q \in syncStates :
    (r.SyncConfigID = q.SyncConfigID /\ r.BackendID = q.BackendID
       /\ r.ClientID = q.ClientID) => r = q

\* the characters of the paths in byte order
ByteOrder == <<"-", "/", "0", "B", "_", "a", "b", "p", "q", "x">>
Byte(c) == CHOOSE i \in 1..Len(ByteOrder) : ByteOrder[i] = c

RECURSIVE PathLeq(_, _)
PathLeq(p, q) ==
  IF p = <<>> THEN TRUE
  ELSE IF q = <<>> THEN FALSE
  ELSE IF Byte(Head(p)) # Byte(Head(q)) THEN Byte(Head(p)) < Byte(Head(q))
  ELSE PathLeq(Tail(p), Tail(q))

Ascending(q) == \A i, j \in 1..Len(q) : i <= j => PathLeq(q[i].Path, q[j].Path)

\* C16: ListFiles returns the matching files in ascending order of path, and
\* a page is the elements offset .. offset+limit-1 of that ordered listing.
C16_ListFilesOrdered ==
  \A b \in ValidIDs, prefix \in {<<>>, PathP} :
    LET whole == ListFiles(files, b, prefix, 0, 0) IN
    /\ \A q \in whole : Ascending(q)
    /\ \A limit \in 1..2, offset \in 0..2 :
         \A page \in ListFiles(files, b, prefix, limit, offset) :
           \A q \in whole : Ascending(q) => page = Take(Drop(q, offset), limit)

\* C17: under any interleaving of store calls from the agent's goroutines at
\* most one write is in flight against the database.
C17_OneWriterInFlight == Cardinality(InFlight(pool)) <= 1

C17_Witness ==
  /\ InFlight(pool) # {}
  /\ Live(tags) # {}
  /\ \E t \in tags : t.Deleted

\* C18: every version is in the history at most once; Migrate does not run
\* Up of a version that is in the history; after a Migrate that returns
\* success every known version is in the history; and once every version is
\* in the history a Migrate changes neither the history nor the schema.
C18_MigrateOnce ==
  /\ [](/\ \A r, q \in history : r.Version = q.Version => r = q
        /\ \A a \in Agents :
             mig[a].pc = "tx" => Migrations[mig[a].i] \notin Applied(history)
        /\ \A a \in Agents : mig[a].pc = "done" => Applied(history) = Versions
        /\ schema = Applied(history))
  /\ [][Applied(history) = Versions => history' = history /\ schema' = schema]_vars

C18_Witness ==
  \E a \in Agents :
    /\ mig[a].pc = "done"
    /\ mig[a].applied = {Migrations[1]}
    /\ Applied(history) = Versions

\* the source path of a sync configuration is the virtual path of a filter
IsFilterSource(c) == \E f \in Live(filters) : f.VirtualPath = c.SourcePath

\* C19: no sync configuration whose source path is a filter virtual path is
\* bidirectional, and creating or updating a configuration to that
\* combination is rejected with the stored configurations unchanged.
C19_FilterSourceNotBidirectional ==
  /\ \A c \in Live(syncConfigs) : IsFilterSource(c) => c.Direction # "bidirectional"
  /\ \A c \in SyncConfigInputs :
       IsFilterSource(c) /\ c.Direction = "bidirectional" =>
         /\ CreateSyncConfigRows(syncConfigs, c).rows = syncConfigs
         /\ UpdateSyncConfigRows(syncConfigs, c).rows = syncConfigs

\* the transitions of the state machine of a sync configuration
SyncTransitions ==
  {<<"idle", "scanning">>, <<"scanning", "syncing">>, <<"syncing", "idle">>,
   <<"idle", "error">>, <<"scanning", "error">>, <<"syncing", "error">>,
   <<"error", "idle">>,
   <<"idle", "paused">>, <<"scanning", "paused">>, <<"syncing", "paused">>,
   <<"paused", "idle">>}

\* C20: the state of a sync configuration moves only along idle -> scanning
\* -> syncing -> idle, from idle, scanning or syncing to error and from error
\* to idle, and from an active state to paused; from paused only to idle.
C20_SyncTransitions ==
  [][\A c \in SyncIDs :
       syncStatus'[c] # syncStatus[c] =>
         <<syncStatus[c], syncStatus'[c]>> \in SyncTransitions]_vars

C20_Witness ==
  \E c, d, e \in SyncIDs :
    /\ syncStatus[c] = "paused"
    /\ syncStatus[d] = "error"
    /\ syncStatus[e] = "syncing"

\* C21: the side with the strictly later modification time wins; on equal
\* times remote wins for download, local for upload and for bidirectional;
\* the losing side's prior state is in the log.
C21_ConflictByTimeThenDirection ==
  [][conflict.pc = "detected" /\ conflict'.pc = "resolved" =>
       LET l == conflict.local
           r == conflict.remote
           w == conflict'.winner IN
       /\ l.mtime > r.mtime => w = "local"
       /\ r.mtime > l.mtime => w = "remote"
       /\ l.mtime = r.mtime =>
            w = (IF conflict.dir = "download" THEN "remote" ELSE "local")
       /\ conflict'.log = (IF w = "local" THEN r ELSE l)
       /\ conflict'.local = (IF w = "local" THEN l ELSE r)
       /\ conflict'.remote = conflict'.local]_vars

C21_Witness ==
  /\ conflict.pc = "resolved"
  /\ conflict.dir = "download"
  /\ conflict.winner = "remote"
  /\ conflict.log.mtime = conflict.local.mtime
  /\ conflict.log.content # conflict.local.content

RECURSIVE SumSizes(_)
SumSizes(q) == IF q = <<>> THEN 0 ELSE JobSize(Head(q)) + SumSizes(Tail(q))

Msgs(q) == {q[i] : i \in 1..Len(q)}

\* C28: when gosync.yaml exists in the output directory and --overwrite is
\* not set, config generate reports that it skips the file and leaves its
\* content as it was; the file is written only when it did not exist or
\* --overwrite is set.
C28_GenerateKeepsExisting ==
  [][cliOut'.ran /\ cliOut'.err = "ok" =>
       LET d == cliOut'.output IN
       /\ cfgFiles[d] # NoFile /\ ~cliOut'.overwrite =>
            "Skipping" \in Msgs(cliOut'.msgs) /\ cfgFiles'[d] = cfgFiles[d]
       /\ cfgFiles'[d] # cfgFiles[d] =>
            cfgFiles[d] = NoFile \/ cliOut'.overwrite]_vars

\* C23: DeleteTag for a tag that does not exist and DeleteFileTags for a
\* file that has no tags leave the tags table (and, by the frame of the two
\* operations, every other table) as it is.
C23_DeleteAbsentTagNoOp ==
  /\ \A id \in 0..(MaxTagID + 1) :
       (~ \E t \in Live(tags) : t.ID = id) => DeleteTagRows(tags, id) = tags
  /\ \A f \in 0..(MaxFileID + 1) :
       (~ \E t \in Live(tags) : t.FileID = f) => DeleteFileTagsRows(tags, f) = tags

C23_Witness ==
  /\ \E t \in tags : t.Deleted
  /\ \E t \in Live(tags) : \E f \in 1..MaxFileID : f # t.ID /\ f = t.FileID

\* a file holds an active tag key=value
HasActiveTag(f, k, v) ==
  \E t \in Live(tags) : t.FileID = f.ID /\ t.Key = k /\ t.Value = v

\* C24: evaluating tag:colour=red AND tag:event=vacation returns exactly the
\* active files that hold an active colour=red tag and an active
\* event=vacation tag.
C24_ConjunctionIsIntersection ==
  EvalAnd(files, tags, Colour, Red, Event, Vacation)
    = {f \in Live(files) : HasActiveTag(f, Colour, Red)
                           /\ HasActiveTag(f, Event, Vacation)}

\* C25: the effect of Up and the history row of a migration commit
\* together; a failing Up or insert leaves schema and history as before that
\* migration and ends the call, with no later migration attempted, and the
\* rows recorded earlier stay.
C25_MigrationAtomic ==
  /\ [](\A v \in Versions : v \in schema <=> v \in Applied(history))
  /\ [][\A a \in Agents :
          /\ mig[a].pc # "failed" /\ mig'[a].pc = "failed" =>
               history' = history /\ schema' = schema
          /\ mig[a].pc = "failed" => mig'[a].pc \in {"failed", "idle"}]_vars
  /\ [][history \subseteq history']_vars

C25_Witness ==
  \E a \in Agents :
    /\ mig[a].pc = "failed"
    /\ mig[a].i = 2
    /\ Applied(history) = {Migrations[1]}
    /\ schema = {Migrations[1]}

\* no Migrate or Rollback call is in progress
Quiescent == \A a \in Agents : ~Migrating(a) /\ ~RollingBack(a)

\* C26: after Rollback returns, either Down of the highest recorded version
\* took effect and its history row is gone, or schema and history are as
\* before the call; no other version's row is touched.
C26_RollbackAllOrNothing ==
  /\ [](Quiescent => schema = Applied(history))
  /\ [][\A r \in history : r \notin history' => r = LastApplied(history)]_vars

C29_FreedPathReusable ==
  \A p \in FilterPaths :
    (~ \E f \in Live(filters) : f.VirtualPath = p) =>
      LET c == CreateFilterRows(filters, [ID |-> 0, VirtualPath |-> p])
          g == GetFilter(c.rows, p) IN
      /\ c.err = "ok"
      /\ g.err = "ok"
      /\ g.row \notin filters

\* the characters of p are the first characters of q
LiteralPrefix(p, q) == Len(p) <= Len(q) /\ SubSeq(q, 1, Len(p)) = p

ListPrefixes == {<<>>, PathP, <<"P">>, <<"_">>, <<"%">>, <<"p", "_">>}

\* C30: ListFiles with a non-empty prefix selects a file exactly when it is
\* an active file of the backend whose path begins with the characters of
\* the prefix, also for "%" and "_"; with the empty prefix it selects every
\* active file of the backend.
C30_PrefixIsLiteral ==
  \A b \in ValidIDs, prefix \in ListPrefixes :
    ListFilesRows(files, b, prefix)
      = {f \in Live(files) : f.BackendID = b /\ LiteralPrefix(prefix, f.Path)}

====
